---- MODULE Spec2Model ----
(***************************************************************************)
(* Sharded pagination of the record-serving API (workers, shifts,          *)
(* workplaces): page resolution, query translation, next-page resolution   *)
(* and link building of src/modules/shared/pagination.ts, as listed in     *)
(* chapter 6, served to a client that may follow the next links.           *)
(*                                                                         *)
(* JavaScript values are modelled as follows.                              *)
(*   - An optional value (T | undefined) is a set: {} is undefined and {v} *)
(*     is the value v.                                                     *)
(*   - A string of decimal digits is a sequence of digits 0..9; <<>> is    *)
(*     the empty string.                                                   *)
(*   - A URL is [base, query], query a sequence of [name, value] pairs in  *)
(*     the order they are written after the "?".                           *)
(* Raw page and shard parameters are strings of digits (the inbound        *)
(* interface carries non-negative integers), so parseInt never yields NaN  *)
(* or a negative number here.                                              *)
(***************************************************************************)
EXTENDS Integers, Sequences, FiniteSets, TLC

VARIABLES collection, request, response, trace, client, top, writer

vars == <<collection, request, response, trace, client, top, writer>>

----------------------------------------------------------------------------
(* Configuration and bounds *)

\* Largest shard index (src/modules/shared/constants.ts; its value is
\* configuration, the sources only give example values).
MAX_SHARDS == 2

\* The collection holds at most this many records over all its shards.
MaxRecords == 21

\* The same, where calls of the store may fail.
MaxRecordsUnreliable == 11

\* getTopWorkplaces is run on at most this many fetched workplaces and
\* shifts.
MaxWorkplaces == 4

MaxShifts == 2

\* A concurrent writer inserts or deletes at most this many records while a
\* client follows the links.
MaxWrites == 2

FIRST_PAGE == 1

PAGE_SIZE == 10

DEFAULT_SHARD == 0

PAGE_QUERY_PARAM == "page"

SHARD_QUERY_PARAM == "shard"

----------------------------------------------------------------------------
(* JavaScript values *)

Undefined == {}

Some(v) == {v}

IsDefined(o) == o # Undefined

ValueOf(o) == CHOOSE v \in o : TRUE

\* a ?? b
Coalesce(o, d) == IF IsDefined(o) THEN ValueOf(o) ELSE d

Min(a, b) == IF a < b THEN a ELSE b

Max(a, b) == IF a > b THEN a ELSE b

\* `${n}` for an integer n >= 0: its decimal digits, without leading zeros.
RECURSIVE NumberToString(_)
NumberToString(n) ==
    IF n < 10 THEN <<n>> ELSE Append(NumberToString(n \div 10), n % 10)

\* parseInt(value, 10) for a non-empty string of digits.
RECURSIVE parseInt(_)
parseInt(value) ==
    IF Len(value) = 0 THEN 0
    ELSE 10 * parseInt(SubSeq(value, 1, Len(value) - 1)) + value[Len(value)]

----------------------------------------------------------------------------
(* The store: one countable, queryable collection (prisma.shift, ...) *)

\* Shards in which records can be stored (the create schemas accept a
\* shard from 0 to MAX_SHARDS).
Shards == 0..MAX_SHARDS

\* The records of one shard, in the fixed order the store returns them.
Rows(shard) ==
    LET n == IF shard \in DOMAIN collection THEN collection[shard] ELSE 0
    IN  [i \in 1..n |-> [shard |-> shard, id |-> i]]

\* collection.findMany({ skip, take, where: { shard } }): the records at
\* positions skip+1 .. skip+take of the shard (a window that starts before
\* the first record is cut there).
findMany(args) ==
    LET rows == Rows(args.where.shard)
    IN  SubSeq(rows, Max(args.skip, 0) + 1,
               Min(args.skip + args.take, Len(rows)))

\* collection.count({ skip, take, where: { shard } }): the number of
\* records left after skipping, at most take.
count(args) ==
    Max(0, Min(args.take, Len(Rows(args.where.shard)) - args.skip))

----------------------------------------------------------------------------
(* src/modules/shared/pagination.ts *)

\* Variant of getPage that defaults the number only when it is absent
\* (pageNum ?? FIRST_PAGE), so that 0 stays 0.
getPage_NullishDefault(pageNum, shard) ==
    [ num   |-> IF IsDefined(pageNum) THEN ValueOf(pageNum) ELSE FIRST_PAGE,
      size  |-> PAGE_SIZE,
      shard |-> shard ]

\* Variant of getPage that fills in the default shard when none is given.
getPage_DefaultsShard(pageNum, shard) ==
    [ num   |-> IF IsDefined(pageNum) /\ ValueOf(pageNum) # 0
                THEN ValueOf(pageNum) ELSE FIRST_PAGE,
      size  |-> PAGE_SIZE,
      shard |-> Some(Coalesce(shard, DEFAULT_SHARD)) ]

\* Variant of getPage that lets the caller's number set the size as well.
getPage_CallerSize(pageNum, shard) ==
    [ num   |-> IF IsDefined(pageNum) /\ ValueOf(pageNum) # 0
                THEN ValueOf(pageNum) ELSE FIRST_PAGE,
      size  |-> IF IsDefined(pageNum) /\ ValueOf(pageNum) # 0
                THEN ValueOf(pageNum) ELSE PAGE_SIZE,
      shard |-> shard ]

getPage(pageNum, shard) ==
    [ num   |-> IF IsDefined(pageNum) /\ ValueOf(pageNum) # 0
                THEN ValueOf(pageNum) ELSE FIRST_PAGE,
      size  |-> PAGE_SIZE,
      shard |-> shard ]

\* Variant of queryParameters that always filters on the default shard.
queryParameters_DefaultShardOnly(page) ==
    [ take  |-> page.size,
      skip  |-> (page.num - 1) * page.size,
      where |-> [shard |-> DEFAULT_SHARD] ]

\* Variant of queryParameters that takes page numbers as 0-indexed.
queryParameters_ZeroIndexed(page) ==
    [ take  |-> page.size,
      skip  |-> page.num * page.size,
      where |-> [shard |-> Coalesce(page.shard, DEFAULT_SHARD)] ]

queryParameters(page) ==
    [ take  |-> page.size,
      skip  |-> (page.num - 1) * page.size,
      where |-> [shard |-> Coalesce(page.shard, DEFAULT_SHARD)] ]

\* Variant of countOnPage that counts the whole shard (where only, no
\* skip and take).
countOnPage_WholeShard(page) ==
    Len(Rows(queryParameters(page).where.shard))

countOnPage(page) == count(queryParameters(page))

\* Variant of getNextPage that carries the page number into the next shard.
getNextPage_KeepsNumber(currentPage) ==
    LET nextNum == currentPage.num + 1
        inShard == getPage(Some(nextNum), currentPage.shard)
        nextShardNum == Coalesce(currentPage.shard, DEFAULT_SHARD) + 1
        inNextShard == getPage(Some(nextNum), Some(nextShardNum))
        first == <<queryParameters(inShard)>>
        second == <<queryParameters(inNextShard)>>
    IN  IF countOnPage(inShard) > 0
        THEN [page |-> Some(inShard), counts |-> first]
        ELSE IF nextShardNum > MAX_SHARDS
        THEN [page |-> Undefined, counts |-> first]
        ELSE IF countOnPage(inNextShard) > 0
        THEN [page |-> Some(inNextShard), counts |-> first \o second]
        ELSE [page |-> Undefined, counts |-> first \o second]

\* Variant of getNextPage that goes on to later shards while the next one
\* is empty.
RECURSIVE ScanShards(_, _)
ScanShards(shardNum, counts) ==
    IF shardNum > MAX_SHARDS THEN [page |-> Undefined, counts |-> counts]
    ELSE LET candidate == getPage(Some(FIRST_PAGE), Some(shardNum))
             counted == Append(counts, queryParameters(candidate))
         IN  IF countOnPage(candidate) > 0
             THEN [page |-> Some(candidate), counts |-> counted]
             ELSE ScanShards(shardNum + 1, counted)

getNextPage_ScansAhead(currentPage) ==
    LET inShard == getPage(Some(currentPage.num + 1), currentPage.shard)
        first == <<queryParameters(inShard)>>
    IN  IF countOnPage(inShard) > 0
        THEN [page |-> Some(inShard), counts |-> first]
        ELSE ScanShards(Coalesce(currentPage.shard, DEFAULT_SHARD) + 1, first)

\* Variant of getNextPage that takes MAX_SHARDS as an exclusive bound.
getNextPage_ExclusiveMax(currentPage) ==
    LET inShard == getPage(Some(currentPage.num + 1), currentPage.shard)
        nextShardNum == Coalesce(currentPage.shard, DEFAULT_SHARD) + 1
        inNextShard == getPage(Some(FIRST_PAGE), Some(nextShardNum))
        first == <<queryParameters(inShard)>>
        second == <<queryParameters(inNextShard)>>
    IN  IF countOnPage(inShard) > 0
        THEN [page |-> Some(inShard), counts |-> first]
        ELSE IF nextShardNum >= MAX_SHARDS
        THEN [page |-> Undefined, counts |-> first]
        ELSE IF countOnPage(inNextShard) > 0
        THEN [page |-> Some(inNextShard), counts |-> first \o second]
        ELSE [page |-> Undefined, counts |-> first \o second]

\* Variant of getNextPage that accepts a candidate page with a count of 0
\* (>= 0 instead of > 0).
getNextPage_CountNonNegative(currentPage) ==
    LET inShard == getPage(Some(currentPage.num + 1), currentPage.shard)
    IN  IF countOnPage(inShard) >= 0
        THEN [page |-> Some(inShard), counts |-> <<queryParameters(inShard)>>]
        ELSE [page |-> Undefined, counts |-> <<queryParameters(inShard)>>]

\* Variant of getNextPage that counts both candidates at once (as with
\* Promise.all) before it looks at either result.
getNextPage_CountsBoth(currentPage) ==
    LET inShard == getPage(Some(currentPage.num + 1), currentPage.shard)
        nextShardNum == Coalesce(currentPage.shard, DEFAULT_SHARD) + 1
        inNextShard == getPage(Some(FIRST_PAGE), Some(nextShardNum))
        both == <<queryParameters(inShard), queryParameters(inNextShard)>>
    IN  IF countOnPage(inShard) > 0
        THEN [page |-> Some(inShard), counts |-> both]
        ELSE IF nextShardNum > MAX_SHARDS
        THEN [page |-> Undefined, counts |-> both]
        ELSE IF countOnPage(inNextShard) > 0
        THEN [page |-> Some(inNextShard), counts |-> both]
        ELSE [page |-> Undefined, counts |-> both]

\* The result carries, besides the next page, the count calls issued.
getNextPage(currentPage) ==
    LET nextPageNumInCurrentShard == currentPage.num + 1
        potentialNextPageInShard ==
            getPage(Some(nextPageNumInCurrentShard), currentPage.shard)
        nextShardNum == Coalesce(currentPage.shard, DEFAULT_SHARD) + 1
        potentialPageInNextShard == getPage(Some(FIRST_PAGE), Some(nextShardNum))
        first == <<queryParameters(potentialNextPageInShard)>>
        second == <<queryParameters(potentialPageInNextShard)>>
    IN  IF countOnPage(potentialNextPageInShard) > 0
        THEN [page |-> Some(potentialNextPageInShard), counts |-> first]
        ELSE IF nextShardNum > MAX_SHARDS
        THEN [page |-> Undefined, counts |-> first]
        ELSE IF countOnPage(potentialPageInNextShard) > 0
        THEN [page |-> Some(potentialPageInNextShard), counts |-> first \o second]
        ELSE [page |-> Undefined, counts |-> first \o second]

urlWithoutQueryParameters(req) == req.base

\* Variant of nextLink that appends to the URL of the request as it came,
\* query parameters included.
nextLink_KeepsQuery(nextPage, req) ==
    IF ~IsDefined(nextPage) THEN Undefined
    ELSE LET page == ValueOf(nextPage)
             pageParam == <<[name |-> PAGE_QUERY_PARAM,
                             value |-> NumberToString(page.num)]>>
             shardParam ==
                 IF page.shard # Undefined
                 THEN <<[name |-> SHARD_QUERY_PARAM,
                         value |-> NumberToString(ValueOf(page.shard))]>>
                 ELSE <<>>
         IN  Some([base  |-> req.base,
                   query |-> req.query \o pageParam \o shardParam])

\* Variant of nextLink that always writes a shard parameter.
nextLink_AlwaysShard(nextPage, req) ==
    IF ~IsDefined(nextPage) THEN Undefined
    ELSE LET page == ValueOf(nextPage)
         IN  Some([base  |-> urlWithoutQueryParameters(req),
                   query |->
                     <<[name |-> PAGE_QUERY_PARAM,
                        value |-> NumberToString(page.num)],
                       [name |-> SHARD_QUERY_PARAM,
                        value |-> NumberToString(
                                      Coalesce(page.shard, DEFAULT_SHARD))]>>])

\* Variant of nextLink that tests the shard for truthiness, so that shard
\* 0 is written like no shard.
nextLink_TruthyShard(nextPage, req) ==
    IF ~IsDefined(nextPage) THEN Undefined
    ELSE LET page == ValueOf(nextPage)
             pageParam == <<[name |-> PAGE_QUERY_PARAM,
                             value |-> NumberToString(page.num)]>>
             shardParam ==
                 IF page.shard # Undefined /\ ValueOf(page.shard) # 0
                 THEN <<[name |-> SHARD_QUERY_PARAM,
                         value |-> NumberToString(ValueOf(page.shard))]>>
                 ELSE <<>>
         IN  Some([base  |-> urlWithoutQueryParameters(req),
                   query |-> pageParam \o shardParam])

nextLink(nextPage, req) ==
    IF ~IsDefined(nextPage) THEN Undefined
    ELSE LET page == ValueOf(nextPage)
             pageParam == <<[name |-> PAGE_QUERY_PARAM,
                             value |-> NumberToString(page.num)]>>
             shardParam ==
                 IF page.shard # Undefined
                 THEN <<[name |-> SHARD_QUERY_PARAM,
                         value |-> NumberToString(ValueOf(page.shard))]>>
                 ELSE <<>>
         IN  Some([base  |-> urlWithoutQueryParameters(req),
                   query |-> pageParam \o shardParam])

\* request.query[name]: the value of the parameter, undefined when the
\* URL does not carry it.
QueryValue(req, name) ==
    LET at == {i \in DOMAIN req.query : req.query[i].name = name}
    IN  IF at = {} THEN Undefined
        ELSE Some(req.query[CHOOSE i \in at : \A j \in at : i <= j].value)

parseOptionalInt(value) ==
    IF IsDefined(value) /\ ValueOf(value) # <<>>
    THEN Some(parseInt(ValueOf(value))) ELSE Undefined

PaginationPage(req) ==
    LET pageQuery == QueryValue(req, PAGE_QUERY_PARAM)
        shardQuery == QueryValue(req, SHARD_QUERY_PARAM)
        pageNum == parseOptionalInt(pageQuery)
        shardNum == parseOptionalInt(shardQuery)
    IN  getPage(pageNum, shardNum)

----------------------------------------------------------------------------
(* A list endpoint: controller and service (GET /shifts?page=..&shard=..) *)

\* The response of findAllPaginated(page) to the request.
findAllPaginated(page, req) ==
    LET next == getNextPage(page)
    IN  [ status |-> "ok",
          data   |-> findMany(queryParameters(page)),
          links  |-> [next |-> nextLink(next.page, req)] ]

\* Variant of Journey in which the next page is resolved before the
\* current page is fetched.
Journey_CountsFirst(req) ==
    LET page == PaginationPage(req)
        next == getNextPage(page)
    IN  [ pageNum  |-> parseOptionalInt(QueryValue(req, PAGE_QUERY_PARAM)),
          shardNum |-> parseOptionalInt(QueryValue(req, SHARD_QUERY_PARAM)),
          page     |-> page,
          calls    |-> [i \in DOMAIN next.counts |->
                           [op |-> "count", args |-> next.counts[i]]]
                       \o <<[op |-> "findMany", args |-> queryParameters(page)]>>,
          nextPage |-> next.page ]

\* What the handler did: the parsed parameters, the page, the store calls
\* in the order issued, and the next page.
Journey(req) ==
    LET page == PaginationPage(req)
        next == getNextPage(page)
    IN  [ pageNum  |-> parseOptionalInt(QueryValue(req, PAGE_QUERY_PARAM)),
          shardNum |-> parseOptionalInt(QueryValue(req, SHARD_QUERY_PARAM)),
          page     |-> page,
          calls    |-> <<[op |-> "findMany", args |-> queryParameters(page)]>>
                       \o [i \in DOMAIN next.counts |->
                              [op |-> "count", args |-> next.counts[i]]],
          nextPage |-> next.page ]

----------------------------------------------------------------------------
(* A store whose calls may reject *)

\* The error a rejected store call carries.
StoreError(call) == [name |-> "PrismaClientError", call |-> call]

\* Variant of getNextPageSettled that catches a rejected count and answers
\* that there is no next page.
getNextPageSettled_CatchesCount(currentPage, rejecting) ==
    LET next == getNextPage(currentPage)
    IN  IF rejecting \in DOMAIN next.counts
        THEN [settled |-> "fulfilled", page |-> Undefined,
              counts |-> SubSeq(next.counts, 1, rejecting)]
        ELSE [settled |-> "fulfilled", page |-> next.page, counts |-> next.counts]

\* How the promise of getNextPage settles when the count call number
\* `rejecting` rejects (0: none does). Each count is awaited outside any
\* try/catch, so the rejection is the rejection of getNextPage, and the
\* calls after it are not issued.
getNextPageSettled(currentPage, rejecting) ==
    LET next == getNextPage(currentPage)
    IN  IF rejecting \in DOMAIN next.counts
        THEN [settled |-> "rejected",
              error |-> StoreError([op |-> "count",
                                    args |-> next.counts[rejecting]]),
              counts |-> SubSeq(next.counts, 1, rejecting)]
        ELSE [settled |-> "fulfilled", page |-> next.page, counts |-> next.counts]

\* The answer of the list endpoint when its store call number `rejecting`
\* rejects (0: none does; 1 is findMany, 2 and 3 are the counts): the
\* failure reaches the caller as it is, and no page is answered.
findAllPaginatedSettled(page, req, rejecting) ==
    LET fetch == [op |-> "findMany", args |-> queryParameters(page)]
        next == getNextPageSettled(page, rejecting - 1)
    IN  IF rejecting = 1
        THEN [status |-> "error", error |-> StoreError(fetch)]
        ELSE IF next.settled = "rejected"
        THEN [status |-> "error", error |-> next.error]
        ELSE [ status |-> "ok",
               data   |-> findMany(queryParameters(page)),
               links  |-> [next |-> nextLink(next.page, req)] ]

\* What the handler did: as Journey, with the calls up to the rejected one.
JourneySettled(req, rejecting) ==
    LET journey == Journey(req)
        next == getNextPageSettled(journey.page, rejecting - 1)
        fetch == <<journey.calls[1]>>
        counts == [i \in DOMAIN next.counts |->
                      [op |-> "count", args |-> next.counts[i]]]
    IN  [ pageNum  |-> journey.pageNum,
          shardNum |-> journey.shardNum,
          page     |-> journey.page,
          calls    |-> IF rejecting = 1 THEN fetch ELSE fetch \o counts,
          rejected |-> IF rejecting \in DOMAIN journey.calls THEN rejecting ELSE 0,
          nextPage |-> IF rejecting # 1 /\ next.settled = "fulfilled"
                       THEN next.page ELSE Undefined ]

----------------------------------------------------------------------------
(* The client *)

\* Raw values a client writes for a query parameter.
RawValues == {<<>>} \cup {<<d>> : d \in 0..(MAX_SHARDS + 1)}

OptionalParam(name) ==
    {<<>>} \cup {<<[name |-> name, value |-> v]>> : v \in RawValues}

ClientURLs ==
    {[base |-> "/shifts", query |-> p \o s] :
        p \in OptionalParam(PAGE_QUERY_PARAM),
        s \in OptionalParam(SHARD_QUERY_PARAM)}

----------------------------------------------------------------------------
(* The state machine *)

RECURSIVE Total(_, _)
Total(f, n) == IF n < 0 THEN 0 ELSE f[n] + Total(f, n - 1)

Init ==
    /\ collection \in {f \in [Shards -> 0..MaxRecords] :
                          Total(f, MAX_SHARDS) <= MaxRecords}
    /\ request = [base |-> "/shifts", query |-> <<>>]
    /\ response = [status |-> "none"]
    /\ trace = [status |-> "none"]
    /\ client = [pc |-> "idle"]
    /\ top = [pc |-> "idle"]
    /\ writer = [pc |-> "idle"]

\* The server handles GET url and answers.
Serve(url) ==
    /\ request' = url
    /\ response' = findAllPaginated(PaginationPage(url), url)
    /\ trace' = Journey(url)
    /\ UNCHANGED collection

\* The client opens a session with a list URL of its choice.
Get ==
    /\ response.status = "none"
    /\ \E url \in ClientURLs : Serve(url)
    /\ UNCHANGED <<client, top, writer>>

\* The client follows the next link of the last response.
FollowNext ==
    /\ response.status = "ok"
    /\ IsDefined(response.links.next)
    /\ Serve(ValueOf(response.links.next))
    /\ UNCHANGED <<client, top, writer>>

Next == Get \/ FollowNext

Spec == Init /\ [][Next]_vars

----------------------------------------------------------------------------
(* src/scripts/top-workplaces.ts: fetchAllWorkplaces and fetchAllShifts *)

\* The list URL a fetch function starts at: `${API_URL}/workplaces`,
\* `${API_URL}/shifts`.
StartURL(fn) ==
    [base |-> IF fn = "fetchAllWorkplaces" THEN "/workplaces" ELSE "/shifts",
     query |-> <<>>]

\* A call of one of the two functions begins: url is the list URL and the
\* array is empty.
InitClient ==
    /\ collection \in {f \in [Shards -> 0..MaxRecords] :
                          Total(f, MAX_SHARDS) <= MaxRecords}
    /\ \E fn \in {"fetchAllWorkplaces", "fetchAllShifts"} :
           /\ client = [pc |-> "loop", fn |-> fn,
                        url |-> Some(StartURL(fn)), items |-> <<>>]
           /\ request = StartURL(fn)
    /\ response = [status |-> "none"]
    /\ trace = [status |-> "none"]
    /\ top = [pc |-> "idle"]
    /\ writer = [pc |-> "idle"]

\* One iteration of while (url): fetch(url), push data.data, and continue
\* at data.links?.next || ''.
FetchIteration(fn) ==
    /\ client.pc = "loop"
    /\ client.fn = fn
    /\ IsDefined(client.url)
    /\ Serve(ValueOf(client.url))
    /\ client' = [client EXCEPT !.items = @ \o response'.data,
                                !.url = response'.links.next]
    /\ UNCHANGED <<top, writer>>

fetchAllWorkplaces == FetchIteration("fetchAllWorkplaces")

fetchAllShifts == FetchIteration("fetchAllShifts")

\* Variant of FetchReturn that leaves the loop only with a non-empty
\* array (while (url || !items.length)).
FetchReturn_NeedsItems ==
    /\ client.pc = "loop"
    /\ ~IsDefined(client.url)
    /\ client.items # <<>>
    /\ client' = [client EXCEPT !.pc = "returned"]
    /\ UNCHANGED <<collection, request, response, trace, top, writer>>

\* url is '' : the loop ends and the array is returned.
FetchReturn ==
    /\ client.pc = "loop"
    /\ ~IsDefined(client.url)
    /\ client' = [client EXCEPT !.pc = "returned"]
    /\ UNCHANGED <<collection, request, response, trace, top, writer>>

NextClient == fetchAllWorkplaces \/ fetchAllShifts \/ FetchReturn

SpecClient == InitClient /\ [][NextClient]_vars

\* The script runs on: a loop that can take a step takes it. The weak
\* fairness of the iteration is written with its enabling condition
\* (url is not ''), that of the return with WF.
SpecClientLive ==
    /\ SpecClient
    /\ WF_vars(FetchReturn)
    /\ \/ []<>~(client.pc = "loop" /\ IsDefined(client.url))
       \/ []<><<fetchAllWorkplaces \/ fetchAllShifts>>_vars

----------------------------------------------------------------------------
(* src/scripts/top-workplaces.ts: getTopWorkplaces *)

Null == {}

\* Variant of activeWorkplaces that only leaves out closed workplaces.
activeWorkplaces_NotClosed(workplaces) ==
    SelectSeq(workplaces, LAMBDA workplace : workplace.status # 2)

\* workplaces.filter(workplace => workplace.status === 0)
activeWorkplaces(workplaces) ==
    SelectSeq(workplaces, LAMBDA workplace : workplace.status = 0)

\* Variant of completedShifts that counts cancelled shifts too.
completedShifts_CountsCancelled(workplace, shifts) ==
    Len(SelectSeq(shifts, LAMBDA shift :
            /\ shift.workplaceId = workplace.id
            /\ shift.workerId # Null))

\* shifts.filter(shift => ...).length
completedShifts(workplace, shifts) ==
    Len(SelectSeq(shifts, LAMBDA shift :
            /\ shift.workplaceId = workplace.id
            /\ shift.workerId # Null
            /\ shift.cancelledAt = Null))

\* activeWorkplaces.map(workplace => ({ name, shifts: completedShifts }))
workplaceActivity(workplaces, shifts) ==
    LET active == activeWorkplaces(workplaces)
    IN  [i \in DOMAIN active |->
            [name |-> active[i].name,
             shifts |-> completedShifts(active[i], shifts)]]

\* Variant of compareShifts that orders ascending.
compareShifts_Ascending(a, b) == a.shifts - b.shifts

\* The comparator (a, b) => b.shifts - a.shifts
compareShifts(a, b) == b.shifts - a.shifts

\* workplaceActivity.sort(compareShifts). Array.prototype.sort is a stable
\* sort: the last element goes before the first element that the
\* comparator puts after it.
RECURSIVE sortByShifts(_)
sortByShifts(activity) ==
    IF activity = <<>> THEN <<>>
    ELSE LET sorted == sortByShifts(SubSeq(activity, 1, Len(activity) - 1))
             x == activity[Len(activity)]
             keep == {i \in DOMAIN sorted :
                         \A j \in 1..i : compareShifts(x, sorted[j]) >= 0}
             n == Cardinality(keep)
         IN  SubSeq(sorted, 1, n) \o <<x>> \o SubSeq(sorted, n + 1, Len(sorted))

\* workplaceActivity.slice(0, 3) after the sort
topWorkplaces(workplaces, shifts) ==
    LET sorted == sortByShifts(workplaceActivity(workplaces, shifts))
    IN  SubSeq(sorted, 1, Min(3, Len(sorted)))

\* The arrays fetchAllWorkplaces can return: workplaces 1..n in the order
\* of their ids, each with a status 0 (active), 1 (suspended) or 2 (closed).
WorkplaceArrays ==
    UNION {{[i \in 1..n |-> [id |-> i, name |-> <<"workplace", i>>,
                             status |-> status[i]]] :
               status \in [1..n -> 0..2]} : n \in 0..MaxWorkplaces}

\* A shift by its kind: the workplace it belongs to, claimed or not,
\* cancelled or not.
ShiftOfKind(id, kind) ==
    [id          |-> id,
     workplaceId |-> (kind \div 4) + 1,
     workerId    |-> IF kind % 2 = 1 THEN {7} ELSE Null,
     cancelledAt |-> IF (kind \div 2) % 2 = 1 THEN {"2025-01-01T00:00:00Z"} ELSE Null]

\* The arrays fetchAllShifts can return, up to the order of the shifts
\* (which getTopWorkplaces does not look at): shifts of the workplaces
\* 1..MaxWorkplaces, fetched or not.
ShiftArrays ==
    UNION {{[i \in 1..n |-> ShiftOfKind(i, kinds[i])] :
               kinds \in {k \in [1..n -> 0..(4 * MaxWorkplaces - 1)] :
                             \A i \in 1..(n - 1) : k[i] <= k[i + 1]}} :
           n \in 0..MaxShifts}

InitTop ==
    /\ collection = [s \in Shards |-> 0]
    /\ request = [base |-> "/workplaces", query |-> <<>>]
    /\ response = [status |-> "none"]
    /\ trace = [status |-> "none"]
    /\ client = [pc |-> "idle"]
    /\ top = [pc |-> "start"]
    /\ writer = [pc |-> "idle"]

\* getTopWorkplaces, with what the two fetches returned, up to the
\* printing of the result.
getTopWorkplaces ==
    /\ top.pc = "start"
    /\ \E workplaces \in WorkplaceArrays, shifts \in ShiftArrays :
           top' = [pc |-> "printed",
                   workplaces |-> workplaces,
                   shifts |-> shifts,
                   output |-> topWorkplaces(workplaces, shifts)]
    /\ UNCHANGED <<collection, request, response, trace, client, writer>>

NextTop == getTopWorkplaces

SpecTop == InitTop /\ [][NextTop]_vars

----------------------------------------------------------------------------
(* src/pipes/zod-validation-pipe.ts and the create schemas *)

\* A JSON value by its kind. A number n is held as 2n, so that a half is
\* a number that is not an integer.
Value(kind, text, num) == [kind |-> kind, text |-> text, num |-> num]

Absent == Value("undefined", "", 0)

\* A request body that is an object, with the keys the schemas know and
\* one they do not.
Object(name, shard, extra) ==
    [kind |-> "object", name |-> name, shard |-> shard, extra |-> extra]

\* A request body that is no object.
NonObject(kind) ==
    [kind |-> kind, name |-> Absent, shard |-> Absent, extra |-> Absent]

\* What zod reports for a value of the wrong type at a path.
InvalidType(expected, value, path) ==
    [message |-> IF value.kind = "undefined" THEN <<"Required">>
                 ELSE <<"Expected", expected, "received", value.kind>>,
     path |-> path]

\* z.string()
zString(value, path) ==
    IF value.kind = "string" THEN <<>>
    ELSE <<InvalidType("string", value, path)>>

\* z.number().int().min(0).max(MAX_SHARDS).optional()
zShard(value, path) ==
    IF value.kind = "undefined" THEN <<>>
    ELSE IF value.kind # "number" THEN <<InvalidType("number", value, path)>>
    ELSE (IF value.num % 2 # 0
          THEN <<[message |-> <<"Expected integer, received float">>,
                  path |-> path]>>
          ELSE <<>>)
         \o (IF value.num < 0
             THEN <<[message |-> <<"Number must be greater than or equal to 0">>,
                     path |-> path]>>
             ELSE <<>>)
         \o (IF value.num > 2 * MAX_SHARDS
             THEN <<[message |-> <<"Number must be less than or equal to MAX_SHARDS">>,
                     path |-> path]>>
             ELSE <<>>)

\* schema.safeParse(value) for createWorkerSchema and
\* createWorkplaceSchema: z.object keeps the keys of the schema only.
safeParse(schema, value) ==
    LET issues ==
            IF value.kind # "object"
            THEN <<InvalidType("object", value, <<>>)>>
            ELSE zString(value.name, <<"name">>)
                 \o (IF schema = "createWorkplaceSchema"
                     THEN zShard(value.shard, <<"shard">>)
                     ELSE <<>>)
    IN  IF issues = <<>>
        THEN [success |-> TRUE,
              data |-> Object(value.name,
                              IF schema = "createWorkplaceSchema"
                              THEN value.shard ELSE Absent,
                              Absent)]
        ELSE [success |-> FALSE, error |-> [issues |-> issues]]

\* Variant of transform that hands the value on whatever safeParse says.
transform_PassesValue(schema, value) ==
    [thrown |-> FALSE, data |-> value]

\* ZodValidationPipe.transform
transform(schema, value) ==
    LET result == safeParse(schema, value)
    IN  IF result.success
        THEN [thrown |-> FALSE, data |-> result.data]
        ELSE [thrown |-> TRUE,
              exception |-> [name |-> "BadRequestException",
                             status |-> 400,
                             message |-> result.error.issues[1]]]

\* The values a client can send for a key.
NameValues ==
    {Absent, Value("null", "", 0), Value("string", "Alice", 0),
     Value("string", "", 0), Value("number", "", 2 * 123)}

ShardValues ==
    {Absent, Value("null", "", 0), Value("string", "1", 0), Value("number", "", 1)}
    \cup {Value("number", "", 2 * n) : n \in (0 - 1)..(MAX_SHARDS + 1)}

Bodies ==
    {Object(name, shard, extra) :
        name \in NameValues, shard \in ShardValues,
        extra \in {Absent, Value("string", "x", 0)}}
    \cup {NonObject(kind) : kind \in {"undefined", "null", "string", "number"}}

InitPipe ==
    /\ collection = [s \in Shards |-> 0]
    /\ request = [status |-> "none"]
    /\ response = [status |-> "none"]
    /\ trace = [status |-> "none"]
    /\ client = [pc |-> "idle"]
    /\ top = [pc |-> "idle"]
    /\ writer = [pc |-> "idle"]

\* POST /workers or /workplaces: @Body(new ZodValidationPipe(schema)) data,
\* then the handler create(data), which runs only if the pipe returned.
\* An exception of the pipe is answered by NestJS with its status.
create ==
    /\ request.status = "none"
    /\ \E schema \in {"createWorkerSchema", "createWorkplaceSchema"},
          body \in Bodies :
           LET piped == transform(schema, body)
           IN  /\ request' = [status |-> "received", schema |-> schema,
                              body |-> body]
               /\ trace' = IF piped.thrown
                           THEN [status |-> "rejected", handler |-> <<>>]
                           ELSE [status |-> "handled",
                                 handler |-> <<piped.data>>]
               /\ response' = IF piped.thrown
                              THEN [status |-> piped.exception.status,
                                    error |-> piped.exception]
                              ELSE [status |-> 201, worker |-> piped.data]
    /\ UNCHANGED <<collection, client, top, writer>>

NextPipe == create

SpecPipe == InitPipe /\ [][NextPipe]_vars

----------------------------------------------------------------------------
(* src/scripts/top-workplaces.ts: the whole script, with fetches that may
   fail *)

\* The two tables behind /workplaces and /shifts hold these records. A
\* row of a table is a shard and a position in it; the workplace at
\* position 3 of a shard is suspended, the others are active.
WorkplaceOf(row) ==
    LET id == row.shard * (MaxWorkplaces + 1) + row.id
    IN  [id |-> id, name |-> <<"workplace", id>>,
         status |-> IF row.id % 3 = 0 THEN 1 ELSE 0]

\* The shifts of a shard belong to the first workplace of that shard;
\* every second one is unclaimed.
ShiftOf(row) ==
    [id          |-> row.shard * (MaxShifts + 1) + row.id,
     workplaceId |-> row.shard * (MaxWorkplaces + 1) + 1,
     workerId    |-> IF row.id % 2 = 1 THEN {7} ELSE Null,
     cancelledAt |-> Null]

\* The state of a fetch function when it is called.
Called(fn) ==
    [pc |-> "loop", fn |-> fn, url |-> Some(StartURL(fn)), items |-> <<>>,
     failed |-> FALSE]

\* getTopWorkplaces has called fetchAllWorkplaces; collection is the table
\* behind the endpoint being fetched.
InitScript ==
    /\ \E workplaces \in {f \in [Shards -> 0..MaxWorkplaces] :
                             Total(f, MAX_SHARDS) <= MaxWorkplaces},
          shifts \in {f \in [Shards -> 0..MaxShifts] :
                         Total(f, MAX_SHARDS) <= MaxShifts} :
           /\ top = [pc |-> "fetching",
                     tables |-> [workplaces |-> workplaces, shifts |-> shifts],
                     workplaces |-> <<>>,
                     shifts |-> <<>>,
                     failed |-> [workplaces |-> Undefined, shifts |-> Undefined],
                     output |-> <<>>]
           /\ collection = workplaces
    /\ request = [base |-> "/workplaces", query |-> <<>>]
    /\ response = [status |-> "none"]
    /\ trace = [status |-> "none"]
    /\ client = Called("fetchAllWorkplaces")
    /\ writer = [pc |-> "idle"]

\* Variant of FetchFails that returns an empty array after a failure.
FetchFails_DropsItems ==
    /\ client.pc = "loop"
    /\ IsDefined(client.url)
    /\ client' = [client EXCEPT !.pc = "returned", !.failed = TRUE,
                                !.items = <<>>]
    /\ UNCHANGED <<collection, request, response, trace, top, writer>>

\* fetch(url) or response.json() rejects, or the answer has no data array
\* to spread: the catch logs the error and breaks out of the loop, and the
\* function returns its array as it is.
FetchFails ==
    /\ client.pc = "loop"
    /\ IsDefined(client.url)
    /\ client' = [client EXCEPT !.pc = "returned", !.failed = TRUE]
    /\ UNCHANGED <<collection, request, response, trace, top, writer>>

\* The URL a fetch function failed at, if it failed.
FailedAt == IF client.failed THEN client.url ELSE Undefined

\* const workplaces = await fetchAllWorkplaces(); fetchAllShifts() is
\* called.
WorkplacesFetched ==
    /\ top.pc = "fetching"
    /\ client.pc = "returned"
    /\ client.fn = "fetchAllWorkplaces"
    /\ top' = [top EXCEPT
           !.workplaces = [i \in DOMAIN client.items |->
                              WorkplaceOf(client.items[i])],
           !.failed.workplaces = FailedAt]
    /\ client' = Called("fetchAllShifts")
    /\ collection' = top.tables.shifts
    /\ UNCHANGED <<request, response, trace, writer>>

\* const shifts = await fetchAllShifts(); the ranking is computed from
\* the two arrays and printed.
RankFetched ==
    /\ top.pc = "fetching"
    /\ client.pc = "returned"
    /\ client.fn = "fetchAllShifts"
    /\ LET shifts == [i \in DOMAIN client.items |-> ShiftOf(client.items[i])]
       IN  top' = [top EXCEPT
               !.pc = "printed",
               !.shifts = shifts,
               !.failed.shifts = FailedAt,
               !.output = topWorkplaces(top.workplaces, shifts)]
    /\ UNCHANGED <<collection, request, response, trace, client, writer>>

NextScript ==
    \/ fetchAllWorkplaces
    \/ fetchAllShifts
    \/ FetchReturn
    \/ FetchFails
    \/ WorkplacesFetched
    \/ RankFetched

SpecScript == InitScript /\ [][NextScript]_vars

----------------------------------------------------------------------------
(* A client following links while other requests write to the collection *)

\* The record delivered as a row: writer.order names the record that holds
\* each position of a shard.
RecordAt(row) ==
    [shard |-> row.shard, id |-> writer.order[row.shard][row.id]]

\* A sequence with x put in so that it holds position i.
InsertAt(seq, i, x) ==
    SubSeq(seq, 1, i - 1) \o <<x>> \o SubSeq(seq, i, Len(seq))

\* A sequence without the element at position i.
RemoveAt(seq, i) ==
    SubSeq(seq, 1, i - 1) \o SubSeq(seq, i + 1, Len(seq))

\* fetchAllShifts begins while a writer is at work. The records 1..n are
\* in the default shard, in this order.
InitWrites ==
    /\ \E n \in 0..MaxRecords :
           collection = [s \in Shards |-> IF s = DEFAULT_SHARD THEN n ELSE 0]
    /\ request = [base |-> "/shifts", query |-> <<>>]
    /\ response = [status |-> "none"]
    /\ trace = [status |-> "none"]
    /\ client = [pc |-> "loop", fn |-> "fetchAllShifts",
                 url |-> Some(StartURL("fetchAllShifts")),
                 items |-> <<>>,
                 deletesSeen |-> 0,
                 last |-> [followed |-> FALSE, empty |-> FALSE, deletes |-> 0]]
    /\ top = [pc |-> "idle"]
    /\ writer = [pc |-> "running",
                 order |-> [s \in Shards |-> [i \in 1..collection[s] |-> i]],
                 inserts |-> 0,
                 deletes |-> 0]

\* The positions of a shard of n records at which the writer works: the
\* first, the last, and the two on either side of the first page boundary.
WritePositions(n) == {p \in {1, PAGE_SIZE, PAGE_SIZE + 1, n} : p <= n}

\* Another request is served between two fetches of the client.
Interleaved ==
    /\ client.pc = "loop"
    /\ IsDefined(client.url)
    /\ writer.pc = "running"
    /\ writer.inserts + writer.deletes < MaxWrites

\* POST: service.create(data) stores a new record in a shard. findMany
\* gives no orderBy, so the store decides where the record stands.
InsertRecord ==
    /\ Interleaved
    /\ \E shard \in Shards :
           \E position \in WritePositions(collection[shard] + 1) :
               /\ collection' = [collection EXCEPT ![shard] = @ + 1]
               /\ writer' = [writer EXCEPT
                      !.order[shard] = InsertAt(@, position,
                                           MaxRecords + writer.inserts + 1),
                      !.inserts = @ + 1]
    /\ UNCHANGED <<request, response, trace, client, top>>

\* A record is removed from a shard.
DeleteRecord ==
    /\ Interleaved
    /\ \E shard \in {s \in Shards : collection[s] > 0} :
           \E position \in WritePositions(collection[shard]) :
               /\ collection' = [collection EXCEPT ![shard] = @ - 1]
               /\ writer' = [writer EXCEPT
                      !.order[shard] = RemoveAt(@, position),
                      !.deletes = @ + 1]
    /\ UNCHANGED <<request, response, trace, client, top>>

\* One iteration of while (url) in fetchAllShifts, against the collection
\* as it is now. client.last notes whether the URL was a next link,
\* whether the page came back empty, and how many records were deleted
\* since the response that carried the link.
FetchUnderWrites ==
    /\ client.pc = "loop"
    /\ IsDefined(client.url)
    /\ Serve(ValueOf(client.url))
    /\ client' = [client EXCEPT
           !.items = @ \o [i \in DOMAIN response'.data |->
                              RecordAt(response'.data[i])],
           !.url = response'.links.next,
           !.deletesSeen = writer.deletes,
           !.last = [followed |-> response.status = "ok",
                     empty |-> response'.data = <<>>,
                     deletes |-> writer.deletes - client.deletesSeen]]
    /\ UNCHANGED <<top, writer>>

NextWrites == InsertRecord \/ DeleteRecord \/ FetchUnderWrites \/ FetchReturn

SpecWrites == InitWrites /\ [][NextWrites]_vars

----------------------------------------------------------------------------
(* Requests served from a store whose calls may reject *)

InitUnreliable ==
    /\ collection \in {f \in [Shards -> 0..MaxRecordsUnreliable] :
                          Total(f, MAX_SHARDS) <= MaxRecordsUnreliable}
    /\ request = [base |-> "/shifts", query |-> <<>>]
    /\ response = [status |-> "none"]
    /\ trace = [status |-> "none"]
    /\ client = [pc |-> "idle"]
    /\ top = [pc |-> "idle"]
    /\ writer = [pc |-> "idle"]

\* The server handles GET url while its store call number `rejecting`
\* rejects (0, or a number beyond the calls issued: none does).
ServeUnreliable(url, rejecting) ==
    /\ request' = url
    /\ response' = findAllPaginatedSettled(PaginationPage(url), url, rejecting)
    /\ trace' = JourneySettled(url, rejecting)
    /\ UNCHANGED <<collection, client, top, writer>>

GetUnreliable ==
    /\ response.status = "none"
    /\ \E url \in ClientURLs :
           \E rejecting \in {0} \cup DOMAIN Journey(url).calls :
               ServeUnreliable(url, rejecting)

FollowNextUnreliable ==
    /\ response.status = "ok"
    /\ IsDefined(response.links.next)
    /\ LET url == ValueOf(response.links.next)
       IN  \E rejecting \in {0} \cup DOMAIN Journey(url).calls :
               ServeUnreliable(url, rejecting)

NextUnreliable == GetUnreliable \/ FollowNextUnreliable

SpecUnreliable == InitUnreliable /\ [][NextUnreliable]_vars

----------------------------------------------------------------------------
(* Vocabulary of the properties *)

TypeOK ==
    /\ collection \in [Shards -> 0..MaxRecords]
    /\ response.status \in {"none", "ok"}

\* A request has been served; trace describes how.
Served == response.status = "ok"

\* Number of records stored in a shard.
StoredIn(shard) == IF shard \in DOMAIN collection THEN collection[shard] ELSE 0

\* The shard a page is queried in.
QueriedShard(page) == IF page.shard = Undefined THEN 0 ELSE ValueOf(page.shard)

SameShardCandidate(page) ==
    [num |-> page.num + 1, size |-> page.size, shard |-> page.shard]

RolloverCandidate(page) ==
    [num |-> 1, size |-> page.size, shard |-> Some(QueriedShard(page) + 1)]

\* The page after the current one in its shard holds no record.
SameShardExhausted(page) == StoredIn(QueriedShard(page)) <= page.num * page.size

\* The shards getNextPage counted in.
ProbedShards ==
    {trace.calls[i].args.where.shard :
        i \in {j \in DOMAIN trace.calls : trace.calls[j].op = "count"}}

----------------------------------------------------------------------------
(* C1 *)

\* C1: for a current page (n, S, s), getNextPage returns the same-shard
\* candidate (n+1, S, s unchanged, unset staying unset) if and only if the
\* shard queried for it (s, or 0 when unset) holds more than n*S records.
C1_SameShardNext ==
    Served =>
        ( trace.nextPage = Some(SameShardCandidate(trace.page))
          <=> StoredIn(QueriedShard(trace.page)) >
                  trace.page.num * trace.page.size )

\* Page 2 of the default shard, shard unset, yields page 3 with the shard
\* still unset.
C1_Witness ==
    /\ Served
    /\ trace.page.num = 2
    /\ trace.page.shard = Undefined
    /\ trace.nextPage = Some([num |-> 3, size |-> PAGE_SIZE, shard |-> Undefined])

----------------------------------------------------------------------------
(* C2 *)

\* C2: shard rollover. When the same-shard candidate page is empty, the
\* next shard (current shard, or 0 if unset, plus 1) is at most MAX_SHARDS
\* and holds a record, getNextPage returns page 1 of the next shard with
\* the current size.
C2_ShardRollover ==
    ( /\ Served
      /\ SameShardExhausted(trace.page)
      /\ QueriedShard(trace.page) + 1 <= MAX_SHARDS
      /\ StoredIn(QueriedShard(trace.page) + 1) >= 1 )
    => trace.nextPage = Some(RolloverCandidate(trace.page))

\* Scenario B: page 1 of shard 0 exhausts it and shard 1 holds records.
C2_Witness ==
    /\ Served
    /\ trace.page = [num |-> 1, size |-> PAGE_SIZE, shard |-> Some(0)]
    /\ collection[0] = 5
    /\ collection[1] = 5
    /\ trace.nextPage = Some([num |-> 1, size |-> PAGE_SIZE, shard |-> Some(1)])

----------------------------------------------------------------------------
(* C3 *)

----------------------------------------------------------------------------
(* C4 *)

----------------------------------------------------------------------------
(* C5 *)

\* C5: with MAX_SHARDS = N the shards are 0 through N-1: from a page of
\* one of these shards getNextPage never probes shard N and never returns
\* a page of shard N.
C5_ShardsBelowMax ==
    ( /\ Served
      /\ QueriedShard(trace.page) < MAX_SHARDS )
    => /\ MAX_SHARDS \notin ProbedShards
       /\ trace.nextPage # Undefined
              => QueriedShard(ValueOf(trace.nextPage)) # MAX_SHARDS

----------------------------------------------------------------------------
(* C6 *)

\* C6: a list request with an explicit shard greater than MAX_SHARDS
\* completes, for every page number, with empty data and no next link.
C6_ShardBeyondMax ==
    ( /\ Served
      /\ trace.shardNum # Undefined
      /\ ValueOf(trace.shardNum) > MAX_SHARDS )
    => /\ response.data = <<>>
       /\ response.links.next = Undefined

\* Page 2 of shard MAX_SHARDS + 1 is requested while shard 0 and shard
\* MAX_SHARDS hold records.
C6_Witness ==
    /\ Served
    /\ trace.shardNum = Some(MAX_SHARDS + 1)
    /\ trace.pageNum = Some(2)
    /\ collection[0] > 0
    /\ collection[MAX_SHARDS] > 0
    /\ response.data = <<>>

----------------------------------------------------------------------------
(* C7 *)

\* The records of a shard at positions from..to (1-based), cut at its end.
Slice(shard, from, to) ==
    [i \in 1..Max(0, Min(to, StoredIn(shard)) - from + 1) |->
        [shard |-> shard, id |-> from + i - 1]]

\* C7: for every page with number N >= 1 and size S the query parameters
\* are take = S, skip = (N-1)*S (0 for N = 1) and where.shard = the page's
\* shard if present (0 included), else DEFAULT_SHARD = 0; the offset counts
\* records of that shard only.
C7_QueryParameters ==
    Served =>
        LET page == trace.page
            args == trace.calls[1].args
        IN  /\ args.take = page.size
            /\ args.skip = (page.num - 1) * page.size
            /\ page.num = 1 => args.skip = 0
            /\ page.shard # Undefined => args.where.shard = ValueOf(page.shard)
            /\ page.shard = Undefined => args.where.shard = 0
            /\ response.data =
                   Slice(args.where.shard, args.skip + 1, args.skip + args.take)

\* Page 2 of the explicit shard 0 is served with records 11.. of shard 0
\* while another shard holds records too.
C7_Witness ==
    /\ Served
    /\ trace.page = [num |-> 2, size |-> PAGE_SIZE, shard |-> Some(0)]
    /\ Len(response.data) > 0
    /\ response.data[1] = [shard |-> 0, id |-> PAGE_SIZE + 1]
    /\ collection[1] > 0

----------------------------------------------------------------------------
(* C8 *)

\* C8 as stated: getPage returns a page whose number is the raw page
\* number, or 1 when it is absent, whose size is PAGE_SIZE and whose shard
\* is the raw shard unchanged.
C8_GetPageAsStated ==
    Served =>
        /\ trace.page.num =
               (IF trace.pageNum = Undefined THEN 1 ELSE ValueOf(trace.pageNum))
        /\ trace.page.size = PAGE_SIZE
        /\ trace.page.shard = trace.shardNum

\* C8 amended: the number is the raw page number when that is present and
\* not 0, and 1 when it is absent or 0; the size is PAGE_SIZE; the shard is
\* the raw shard unchanged (absent stays absent, 0 stays 0).
C8_GetPage ==
    Served =>
        /\ trace.page.num =
               (IF trace.pageNum = Undefined \/ trace.pageNum = Some(0)
                THEN 1 ELSE ValueOf(trace.pageNum))
        /\ trace.page.size = PAGE_SIZE
        /\ trace.page.shard = trace.shardNum

\* A raw page number 0 with no shard resolves to page 1, shard unset.
C8_Witness ==
    /\ Served
    /\ trace.pageNum = Some(0)
    /\ trace.shardNum = Undefined
    /\ trace.page = [num |-> 1, size |-> PAGE_SIZE, shard |-> Undefined]

----------------------------------------------------------------------------
(* C9 *)

\* The next link of the response carries a shard query parameter.
LinkHasShard ==
    \E i \in DOMAIN ValueOf(response.links.next).query :
        ValueOf(response.links.next).query[i].name = SHARD_QUERY_PARAM

\* C9 as stated: a next link omits the shard parameter if and only if the
\* shard of the request was absent.
C9_LinkShardAsStated ==
    (Served /\ response.links.next # Undefined)
    => (~LinkHasShard <=> trace.shardNum = Undefined)

\* C9 amended: a next link omits the shard parameter if and only if the
\* shard of the request was absent and the next page is the following page
\* of the same shard; a link into the next shard always names the shard.
C9_LinkShard ==
    (Served /\ response.links.next # Undefined)
    => ( ~LinkHasShard
         <=> ( /\ trace.shardNum = Undefined
               /\ trace.nextPage = Some(SameShardCandidate(trace.page)) ) )

\* A request without shard is answered with a link without shard.
C9_Witness ==
    /\ Served
    /\ trace.shardNum = Undefined
    /\ response.links.next # Undefined
    /\ ~LinkHasShard

----------------------------------------------------------------------------
(* C10 *)

\* C10: round trip. Parsing the page and shard parameters of the link
\* built for a page returned by getNextPage, and resolving them with
\* getPage, gives that page again: number, size and shard, unset and 0
\* kept apart.
C10_LinkRoundTrip ==
    (Served /\ trace.nextPage # Undefined)
    => /\ response.links.next # Undefined
       /\ PaginationPage(ValueOf(response.links.next)) = ValueOf(trace.nextPage)

\* A link to page 2 of the explicit shard 0 was emitted.
C10_Witness ==
    /\ Served
    /\ trace.nextPage = Some([num |-> 2, size |-> PAGE_SIZE, shard |-> Some(0)])
    /\ response.links.next # Undefined

----------------------------------------------------------------------------
(* C11 *)

\* The values a URL carries for a query parameter, in order.
ParamValues(url, name) ==
    LET at == {i \in DOMAIN url.query : url.query[i].name = name}
    IN  {<<i, url.query[i].value>> : i \in at}

\* C11: nextLink returns none exactly when the next page is none;
\* otherwise it returns the base URL of the request, without the query
\* parameters the request came with, carrying one page parameter equal to
\* the number of the next page.
C11_NextLink ==
    Served =>
        /\ response.links.next = Undefined <=> trace.nextPage = Undefined
        /\ response.links.next # Undefined =>
               LET link == ValueOf(response.links.next)
                   next == ValueOf(trace.nextPage)
               IN  /\ link.base = request.base
                   /\ ParamValues(link, PAGE_QUERY_PARAM) =
                          {<<1, NumberToString(next.num)>>}
                   /\ parseInt(link.query[1].value) = next.num
                   /\ Len(link.query) <= 2

\* A request for page 1 of shard 0 is answered with a link whose only page
\* parameter is 2.
C11_Witness ==
    /\ Served
    /\ request.query = <<[name |-> PAGE_QUERY_PARAM, value |-> <<1>>],
                         [name |-> SHARD_QUERY_PARAM, value |-> <<0>>]>>
    /\ response.links.next # Undefined
    /\ ParamValues(ValueOf(response.links.next), PAGE_QUERY_PARAM) = {<<1, <<2>>>>}

----------------------------------------------------------------------------
(* C12 *)

\* C12: nextLink appends a shard parameter if and only if the shard of the
\* next page is present; an explicit shard 0 is written shard=0 and an
\* unset shard gives no shard parameter at all.
C12_LinkShardParam ==
    (Served /\ response.links.next # Undefined) =>
        LET link == ValueOf(response.links.next)
            next == ValueOf(trace.nextPage)
        IN  /\ ParamValues(link, SHARD_QUERY_PARAM) # {} <=> next.shard # Undefined
            /\ next.shard # Undefined =>
                   ParamValues(link, SHARD_QUERY_PARAM) =
                       {<<2, NumberToString(ValueOf(next.shard))>>}
            /\ next.shard = Some(0) =>
                   QueryValue(link, SHARD_QUERY_PARAM) = Some(<<0>>)
            /\ next.shard = Undefined =>
                   QueryValue(link, SHARD_QUERY_PARAM) = Undefined

\* The next page is page 2 of the explicit shard 0 and its link says
\* shard=0.
C12_Witness ==
    /\ Served
    /\ trace.nextPage = Some([num |-> 2, size |-> PAGE_SIZE, shard |-> Some(0)])
    /\ QueryValue(ValueOf(response.links.next), SHARD_QUERY_PARAM) = Some(<<0>>)

----------------------------------------------------------------------------
(* C15 *)

\* C15: every page built by getPage from an absent or non-negative raw
\* page number, and every page getNextPage returns from such a page, has a
\* number >= 1 (a raw page number 0 resolves to 1), so no offset handed to
\* the store is negative.
C15_NumberAtLeastOne ==
    Served =>
        /\ trace.page.num >= 1
        /\ trace.pageNum = Some(0) => trace.page.num = 1
        /\ trace.nextPage # Undefined => ValueOf(trace.nextPage).num >= 1
        /\ \A i \in DOMAIN trace.calls : trace.calls[i].args.skip >= 0

\* ?page=0 is served as page 1 from offset 0, and page 2 follows.
C15_Witness ==
    /\ Served
    /\ trace.pageNum = Some(0)
    /\ trace.calls[1].args.skip = 0
    /\ trace.nextPage # Undefined
    /\ ValueOf(trace.nextPage).num = 2

----------------------------------------------------------------------------
(* C16 *)

InShardRange(shard) ==
    shard = Undefined \/ (ValueOf(shard) >= 0 /\ ValueOf(shard) <= MAX_SHARDS)

\* C16 as stated: every page the resolver produces from a request with an
\* absent or non-negative shard, and every page getNextPage returns, has
\* its shard unset or within 0..MAX_SHARDS.
C16_ShardRangeAsStated ==
    Served =>
        /\ InShardRange(trace.page.shard)
        /\ trace.nextPage # Undefined => InShardRange(ValueOf(trace.nextPage).shard)

\* C16 amended: the resolver passes the shard of the request through
\* unchecked, so the page it produces has its shard unset or within
\* 0..MAX_SHARDS exactly when the request has; every page getNextPage
\* returns has its shard unset or within 0..MAX_SHARDS.
C16_ShardRange ==
    Served =>
        /\ trace.page.shard = trace.shardNum
        /\ InShardRange(trace.page.shard) <=> InShardRange(trace.shardNum)
        /\ trace.nextPage # Undefined => InShardRange(ValueOf(trace.nextPage).shard)

\* A request for shard MAX_SHARDS + 1 is resolved to a page of that shard,
\* and has no next page although shard MAX_SHARDS holds records.
C16_Witness ==
    /\ Served
    /\ trace.page.shard = Some(MAX_SHARDS + 1)
    /\ trace.nextPage = Undefined
    /\ collection[MAX_SHARDS] > 0

----------------------------------------------------------------------------
(* C13 *)

\* The records stored in the collection.
Stored ==
    {r \in [shard : Shards, id : 1..MaxRecords] : r.id <= collection[r.shard]}

Delivered == {client.items[i] : i \in DOMAIN client.items}

\* C13: under a collection that does not change and HTTP calls that all
\* succeed, fetchAllWorkplaces and fetchAllShifts return every record
\* stored in any shard 0..MAX_SHARDS.
C13_FetchAllComplete ==
    client.pc = "returned" => Stored \subseteq Delivered

----------------------------------------------------------------------------
(* C14 *)

\* C14: there is no partial success. If the fetch or a count probe fails,
\* the failure reaches the caller unchanged and no page response is
\* produced; a response, when produced, has the full data of the page
\* (possibly empty) and the outcome of the next-page resolution.
C14_NoPartialSuccess ==
    response.status # "none" =>
        /\ trace.rejected # 0 =>
               /\ response.status = "error"
               /\ DOMAIN response = {"status", "error"}
               /\ response.error = StoreError(trace.calls[trace.rejected])
               /\ Len(trace.calls) = trace.rejected
        /\ trace.rejected = 0 =>
               /\ response.status = "ok"
               /\ response.data =
                      Slice(QueriedShard(trace.page),
                            (trace.page.num - 1) * trace.page.size + 1,
                            trace.page.num * trace.page.size)
               /\ trace.calls = Journey(request).calls
               /\ trace.nextPage = Journey(request).nextPage
               /\ response.links.next # Undefined <=> trace.nextPage # Undefined

\* The fetch of page 1 succeeded with records, the first count found
\* nothing and the count in the next shard failed: the answer is the
\* error of that count.
C14_Witness ==
    /\ response.status = "error"
    /\ trace.rejected = 3
    /\ collection[0] > 0
    /\ response.error.call.op = "count"
    /\ response.error.call.args.where.shard = 1

----------------------------------------------------------------------------
(* C18 *)

Printed == top.pc = "printed"

\* The fetched workplaces of a given status set.
FetchedWithStatus(statuses) ==
    {top.workplaces[i] : i \in {j \in DOMAIN top.workplaces :
                                   top.workplaces[j].status \in statuses}}

\* C18: getTopWorkplaces outputs exactly min(3, number of active
\* workplaces) entries, each one a different active workplace (status 0)
\* among those fetched; suspended (1) and closed (2) workplaces never
\* appear.
C18_TopAreActive ==
    Printed =>
        /\ Len(top.output) = Min(3, Cardinality(FetchedWithStatus({0})))
        /\ \A i \in DOMAIN top.output :
               /\ \E w \in FetchedWithStatus({0}) : w.name = top.output[i].name
               /\ ~ \E w \in FetchedWithStatus({1, 2}) : w.name = top.output[i].name
               /\ \A j \in DOMAIN top.output :
                      top.output[i].name = top.output[j].name => i = j

\* Two active workplaces, a suspended and a closed one were fetched: two
\* entries are output.
C18_Witness ==
    /\ Printed
    /\ Cardinality(FetchedWithStatus({0})) = 2
    /\ FetchedWithStatus({1}) # {}
    /\ FetchedWithStatus({2}) # {}
    /\ Len(top.output) = 2

----------------------------------------------------------------------------
(* C19 *)

\* The fetched shifts of a workplace that are claimed and not cancelled.
CompletedAt(workplaceId) ==
    {i \in DOMAIN top.shifts :
        /\ top.shifts[i].workplaceId = workplaceId
        /\ top.shifts[i].workerId # Null
        /\ top.shifts[i].cancelledAt = Null}

\* C19: the shift count output for a workplace is the number of fetched
\* shifts of that workplace that have a worker and are not cancelled;
\* unclaimed or cancelled shifts and shifts of other workplaces are not
\* counted.
C19_CompletedShiftCount ==
    Printed =>
        \A i \in DOMAIN top.output :
            \A w \in FetchedWithStatus({0}) :
                w.name = top.output[i].name =>
                    top.output[i].shifts = Cardinality(CompletedAt(w.id))

\* A workplace with one completed and one cancelled shift is output with
\* 1 shift.
C19_Witness ==
    /\ Printed
    /\ Len(top.output) >= 1
    /\ top.output[1].shifts = 1
    /\ Len(top.shifts) = 2
    /\ top.shifts[1].workplaceId = top.shifts[2].workplaceId
    /\ top.shifts[2].cancelledAt # Null

----------------------------------------------------------------------------
(* C20 *)

\* C20: the entries output are in non-increasing order of completed-shift
\* count, and no active workplace left out has a strictly larger count
\* than one that is output.
C20_TopOrder ==
    Printed =>
        /\ \A i, j \in DOMAIN top.output :
               i < j => top.output[i].shifts >= top.output[j].shifts
        /\ \A w \in FetchedWithStatus({0}) :
               (\A i \in DOMAIN top.output : top.output[i].name # w.name)
               => \A i \in DOMAIN top.output :
                      Cardinality(CompletedAt(w.id)) <= top.output[i].shifts

\* Four active workplaces were fetched; the last one has the most
\* completed shifts and is output first, and one workplace is left out.
C20_Witness ==
    /\ Printed
    /\ Cardinality(FetchedWithStatus({0})) = 4
    /\ Len(top.output) = 3
    /\ top.output[1].name = top.workplaces[4].name
    /\ top.output[1].shifts > top.output[2].shifts

----------------------------------------------------------------------------
(* C17 *)

\* The client holds the same record twice.
ReceivedTwice ==
    \E i, j \in DOMAIN client.items : i < j /\ client.items[i] = client.items[j]

\* The records that were stored when the traversal began and still are
\* (an inserted record has an id above MaxRecords).
StoredThroughout ==
    UNION {{[shard |-> s, id |-> writer.order[s][i]] :
               i \in {j \in DOMAIN writer.order[s] :
                         writer.order[s][j] <= MaxRecords}} : s \in Shards}

\* The traversal is over and a record that was stored throughout it was
\* never delivered.
MissedRecord ==
    /\ client.pc = "returned"
    /\ \E r \in StoredThroughout :
           \A i \in DOMAIN client.items : client.items[i] # r

\* C17: the count probe behind a next link and the later fetch of that
\* page are not atomic. A followed link returns an empty page only when a
\* record was deleted between the response that carried the link and the
\* fetch; the client receives a record twice only when a record was
\* inserted during the traversal, and misses a record that was stored
\* throughout only when one was deleted during it. Such interleavings
\* exist (C17_Witness).
C17_StaleOnlyUnderWrites ==
    writer.pc = "running" =>
        /\ (client.last.followed /\ client.last.empty) => client.last.deletes > 0
        /\ ReceivedTwice => writer.inserts > 0
        /\ MissedRecord => writer.deletes > 0

\* One traversal in which a record is delivered twice after an insert, the
\* last link followed returns an empty page after a delete, and a record
\* stored throughout is never delivered.
C17_Witness ==
    /\ writer.pc = "running"
    /\ client.last.followed
    /\ client.last.empty
    /\ client.last.deletes > 0
    /\ ReceivedTwice
    /\ MissedRecord

----------------------------------------------------------------------------
(* C22 *)

\* The store calls issued after the fetch of the current page: those of
\* getNextPage.
NextPageCalls == SubSeq(trace.calls, 2, Len(trace.calls))

\* C22: getNextPage issues one or two count calls, one after the other,
\* and no findMany. The first counts the same-shard candidate; it is the
\* only one when that candidate holds a record; the second is issued only
\* when the first returned 0 and the next shard is at most MAX_SHARDS, and
\* counts page 1 of the next shard.
C22_CountProbes ==
    Served =>
        LET page == trace.page
            calls == NextPageCalls
        IN  /\ Len(calls) \in {1, 2}
            /\ \A i \in DOMAIN calls : calls[i].op = "count"
            /\ calls[1].args = [take |-> page.size,
                                skip |-> page.num * page.size,
                                where |-> [shard |-> QueriedShard(page)]]
            /\ ~SameShardExhausted(page) => Len(calls) = 1
            /\ Len(calls) = 2 =>
                   /\ SameShardExhausted(page)
                   /\ QueriedShard(page) + 1 <= MAX_SHARDS
                   /\ calls[2].args = [take |-> page.size,
                                       skip |-> 0,
                                       where |-> [shard |-> QueriedShard(page) + 1]]
            /\ (SameShardExhausted(page) /\ QueriedShard(page) + 1 > MAX_SHARDS)
                   => Len(calls) = 1

\* A request for which two counts were issued, and both returned 0.
C22_Witness ==
    /\ Served
    /\ Len(NextPageCalls) = 2
    /\ trace.nextPage = Undefined
    /\ Len(response.data) > 0

----------------------------------------------------------------------------
(* C23 *)

\* The positions in the trace of the calls of one operation.
CallsOf(op) == {i \in DOMAIN trace.calls : trace.calls[i].op = op}

\* C23: a list request is served in the order resolve page, translate,
\* fetch the current page, resolve the next page, build the link. The
\* page is the one resolved from the parsed parameters; the one findMany,
\* with the translated parameters of that page, comes before every count
\* of getNextPage; and the link in the response is built from the page
\* getNextPage returned.
C23_StepOrder ==
    Served =>
        /\ trace.page.num = IF trace.pageNum \in {Undefined, {0}}
                            THEN 1 ELSE ValueOf(trace.pageNum)
        /\ trace.page.shard = trace.shardNum
        /\ CallsOf("findMany") = {1}
        /\ trace.calls[1].args.skip = (trace.page.num - 1) * trace.page.size
        /\ trace.calls[1].args.where.shard = QueriedShard(trace.page)
        /\ CallsOf("count") # {}
        /\ \A i \in CallsOf("count") : i > 1
        /\ IsDefined(response.links.next) <=> IsDefined(trace.nextPage)
        /\ IsDefined(response.links.next) =>
               parseInt(ValueOf(response.links.next).query[1].value)
                   = ValueOf(trace.nextPage).num

\* A request for page 2 whose fetch is followed by two counts and a link
\* to the next shard.
C23_Witness ==
    /\ Served
    /\ trace.pageNum = {2}
    /\ Len(response.data) > 0
    /\ CallsOf("count") = {2, 3}
    /\ IsDefined(response.links.next)

----------------------------------------------------------------------------
(* C24 *)

\* C24: the page size is never taken from the caller. Whatever the
\* request, the page getPage resolves has the fixed page size, and so has
\* the page getNextPage returns, same-shard or rollover: it has the size
\* of the current page.
C24_FixedPageSize ==
    Served =>
        /\ trace.page.size = PAGE_SIZE
        /\ trace.calls[1].args.take = PAGE_SIZE
        /\ IsDefined(trace.nextPage) =>
               /\ ValueOf(trace.nextPage).size = PAGE_SIZE
               /\ ValueOf(trace.nextPage).size = trace.page.size

\* A request naming page 2 and a shard whose next page is the first page
\* of the next shard.
C24_Witness ==
    /\ Served
    /\ trace.pageNum = {2}
    /\ IsDefined(trace.shardNum)
    /\ IsDefined(trace.nextPage)
    /\ ValueOf(trace.nextPage).num = 1
    /\ ValueOf(trace.nextPage).size = PAGE_SIZE

----------------------------------------------------------------------------
(* C25 *)

\* C25: the data of a list response holds at most size items, all of them
\* records of the one shard the translation selects (the shard of the
\* request, 0 when unset): exactly the records stored at the 0-based
\* positions (number-1)*size .. number*size-1 of that shard, in order.
\* (A record's id is its 1-based position in its shard.)
C25_PageSlice ==
    Served =>
        LET page == trace.page
            shard == QueriedShard(page)
            first == (page.num - 1) * page.size
        IN  /\ Len(response.data) <= page.size
            /\ \A i \in DOMAIN response.data :
                   /\ response.data[i].shard = shard
                   /\ response.data[i].id - 1 = first + i - 1
                   /\ response.data[i].id - 1 <= page.num * page.size - 1
                   /\ response.data[i].id <= StoredIn(shard)
            /\ \A position \in first..(page.num * page.size - 1) :
                   position < StoredIn(shard) =>
                       \E i \in DOMAIN response.data :
                           response.data[i].id - 1 = position

\* Page 2 of shard 1 is served with the one record stored there at
\* position 10, while shard 0 holds records too.
C25_Witness ==
    /\ Served
    /\ trace.page = [num |-> 2, size |-> PAGE_SIZE, shard |-> Some(1)]
    /\ collection[0] > 0
    /\ response.data = <<[shard |-> 1, id |-> 11]>>

----------------------------------------------------------------------------
(* C26 *)

\* C26: under a collection that does not change, an emitted next link
\* never leads to an empty page. Whenever a response carries a next link,
\* the request that follows it is answered with at least one item.
C26_NextPageNotEmpty ==
    [][ (Served /\ IsDefined(response.links.next))
            => /\ request' = ValueOf(response.links.next)
               /\ Len(response'.data) >= 1 ]_vars

\* The link to page 3 of the default shard has been followed and the
\* page holds the last record of the shard.
C26_Witness ==
    /\ Served
    /\ request.query = <<[name |-> PAGE_QUERY_PARAM, value |-> <<3>>]>>
    /\ Len(response.data) = 1
    /\ ~IsDefined(response.links.next)

----------------------------------------------------------------------------
(* C27 *)

\* The address of a page: its effective shard (0 when unset) and number.
Address(page) == <<QueriedShard(page), page.num>>

\* Strict lexicographic order of addresses.
LexLess(a, b) == a[1] < b[1] \/ (a[1] = b[1] /\ a[2] < b[2])

\* C27: a page returned by getNextPage is (number+1, same shard) or
\* (1, effective shard + 1) and nothing else, so its address (effective
\* shard, number) is strictly greater in lexicographic order than that of
\* the current page; the request that follows the link is served at that
\* address, so a chain of next links never revisits an address.
C27_LexicographicProgress ==
    [][ (Served /\ IsDefined(trace.nextPage)) =>
            LET page == trace.page
                next == ValueOf(trace.nextPage)
            IN  /\ page.num >= 1
                /\ \/ next = SameShardCandidate(page)
                   \/ next = RolloverCandidate(page)
                /\ LexLess(Address(page), Address(next))
                /\ Address(trace'.page) = Address(next)
                /\ LexLess(Address(page), Address(trace'.page)) ]_vars

\* Page 2 of the unset shard is followed by page 1 of shard 1: the number
\* goes down and the address goes up.
C27_Witness ==
    /\ Served
    /\ trace.page = [num |-> 2, size |-> PAGE_SIZE, shard |-> Undefined]
    /\ trace.nextPage = Some([num |-> 1, size |-> PAGE_SIZE, shard |-> Some(1)])

----------------------------------------------------------------------------
(* C28 *)

\* C28: under a finite collection that does not change and HTTP calls that
\* all succeed, the loop of fetchAllWorkplaces / fetchAllShifts ends: it
\* receives a response without a next link and returns.
C28_FetchAllTerminates ==
    <>( /\ client.pc = "returned"
        /\ Served
        /\ ~IsDefined(response.links.next) )

\* The loop has returned after it followed links through two shards.
C28_Witness ==
    /\ client.pc = "returned"
    /\ Len(client.items) > PAGE_SIZE
    /\ \E i \in DOMAIN client.items : client.items[i].shard = 1

----------------------------------------------------------------------------
(* C29 *)

\* The non-empty shards are exactly the shards 0..k for some k: no empty
\* shard precedes a non-empty one.
Gapless ==
    \E k \in Shards : \A s \in Shards : collection[s] > 0 <=> s <= k

\* C29: under a collection that does not change, with no empty shard
\* before a non-empty one and a fixed order of the records of a shard,
\* following the next links from the default request until none is
\* returned delivers every record of the collection exactly once (and in
\* the order of the shards and of the records in each).
C29_ExactlyOnce ==
    (client.pc = "returned" /\ Gapless) =>
        /\ Delivered = Stored
        /\ Len(client.items) = Cardinality(Stored)
        /\ \A i, j \in DOMAIN client.items :
               i < j => LexLess(<<client.items[i].shard, client.items[i].id>>,
                                <<client.items[j].shard, client.items[j].id>>)

\* All shards hold records, the first one more than a page, and the loop
\* has returned with all of them.
C29_Witness ==
    /\ client.pc = "returned"
    /\ collection[0] > PAGE_SIZE
    /\ \A s \in Shards : collection[s] > 0
    /\ Len(client.items) = Cardinality(Stored)
    /\ client.items[Len(client.items)].shard = MAX_SHARDS

----------------------------------------------------------------------------
(* C30 *)

\* The rows of a table (given by its record count per shard) on the pages
\* a traversal from the default request gets before it asks for the page
\* of a URL: the shards before that page's shard and the earlier pages of
\* its shard.
RowsBefore(counts, url) ==
    LET page == PaginationPage(url)
    IN  UNION {{[shard |-> s, id |-> i] :
                   i \in {j \in 1..counts[s] :
                             \/ s < QueriedShard(page)
                             \/ /\ s = QueriedShard(page)
                                /\ j <= (page.num - 1) * page.size}} :
               s \in Shards}

\* The elements of an array.
Elements(array) == {array[i] : i \in DOMAIN array}

\* C30: when the fetch or the decoding of a page fails, the fetch function
\* stops following links and returns, without raising an error, the items
\* of the pages it got before; getTopWorkplaces then computes and prints
\* its ranking from the arrays it was given, partial or not.
C30_PartialDataOnFailure ==
    /\ top.pc \in {"fetching", "printed"}
    /\ (client.pc = "returned" /\ client.failed) =>
           /\ IsDefined(client.url)
           /\ Delivered = RowsBefore(collection, ValueOf(client.url))
           /\ Len(client.items) = Cardinality(Delivered)
    /\ (top.pc = "fetching" /\ client.fn = "fetchAllShifts"
            /\ IsDefined(top.failed.workplaces)) =>
           /\ Elements(top.workplaces) =
                  {WorkplaceOf(r) : r \in RowsBefore(top.tables.workplaces,
                                         ValueOf(top.failed.workplaces))}
           /\ client.pc \in {"loop", "returned"}
    /\ top.pc = "printed" =>
           /\ IsDefined(top.failed.workplaces) =>
                  Elements(top.workplaces) =
                      {WorkplaceOf(r) : r \in RowsBefore(top.tables.workplaces,
                                             ValueOf(top.failed.workplaces))}
           /\ IsDefined(top.failed.shifts) =>
                  Elements(top.shifts) =
                      {ShiftOf(r) : r \in RowsBefore(top.tables.shifts,
                                         ValueOf(top.failed.shifts))}
           /\ Len(top.output) =
                  Min(3, Cardinality({w \in Elements(top.workplaces) :
                                         w.status = 0}))
           /\ \A i \in DOMAIN top.output :
                  \E w \in Elements(top.workplaces) :
                      /\ w.status = 0
                      /\ w.name = top.output[i].name
                      /\ top.output[i].shifts =
                             Cardinality({sh \in Elements(top.shifts) :
                                             /\ sh.workplaceId = w.id
                                             /\ sh.workerId # Null
                                             /\ sh.cancelledAt = Null})

\* The fetch of the second page of workplaces failed and so did the second
\* fetch of shifts; the ranking printed has the workplace of the first
\* page with the shift of the first page, while both tables hold more.
C30_Witness ==
    /\ top.pc = "printed"
    /\ IsDefined(top.failed.workplaces)
    /\ IsDefined(top.failed.shifts)
    /\ Len(top.workplaces) = 1
    /\ Total(top.tables.workplaces, MAX_SHARDS) > 1
    /\ Len(top.shifts) = 1
    /\ Total(top.tables.shifts, MAX_SHARDS) > 1
    /\ Len(top.output) = 1
    /\ top.output[1].shifts = 1

----------------------------------------------------------------------------
(* C21 *)

\* The body matches the schema: an object whose name is a string and, for
\* a workplace, whose shard is left out or is an integer from 0 to
\* MAX_SHARDS.
Conforms(schema, body) ==
    /\ body.kind = "object"
    /\ body.name.kind = "string"
    /\ schema = "createWorkplaceSchema" =>
           \/ body.shard.kind = "undefined"
           \/ /\ body.shard.kind = "number"
              /\ \E n \in 0..MAX_SHARDS : body.shard.num = 2 * n

\* C21: a handler guarded by ZodValidationPipe runs only with data that
\* matches the schema. On valid input the handler is invoked once, with
\* the parsed data (the keys of the schema, with the values sent); on
\* invalid input (a wrong type, a missing required field) the answer is
\* the BadRequestException with status 400 and the handler is not invoked.
C21_ValidatedHandler ==
    request.status = "received" =>
        /\ Conforms(request.schema, request.body) =>
               /\ Len(trace.handler) = 1
               /\ trace.handler[1].name = request.body.name
               /\ trace.handler[1].shard =
                      IF request.schema = "createWorkplaceSchema"
                      THEN request.body.shard ELSE Absent
               /\ trace.handler[1].extra = Absent
               /\ response.status = 201
        /\ ~Conforms(request.schema, request.body) =>
               /\ trace.handler = <<>>
               /\ response.status = 400
               /\ response.error.name = "BadRequestException"
        /\ \A i \in DOMAIN trace.handler :
               Conforms(request.schema, trace.handler[i])

\* {"name": 123} is rejected with 400 and the handler did not run.
C21_Witness ==
    /\ request.status = "received"
    /\ request.body.kind = "object"
    /\ request.body.name = Value("number", "", 2 * 123)
    /\ response.status = 400
    /\ response.error.message.path = <<"name">>
    /\ trace.handler = <<>>

====
